---------------------------- MODULE Spec2Model ----------------------------
(***************************************************************************)
(* Model of backupberhasil.py: the dialogue-video pipeline                 *)
(* (VideoCreator.create_conversation_video_oop), the image scaler          *)
(* (ImageProcessor.scale_image), the subtitle renderer                     *)
(* (SubtitleGenerator.create_subtitle_mask with its nested wrap_text)      *)
(* and the frame compositor (DialogClip.__call__).                         *)
(*                                                                         *)
(* Time is counted in ticks of 0.1 time unit, so the 0.5 pad is 5 ticks    *)
(* and a sample time t = k/10 is the tick k.                               *)
(***************************************************************************)
EXTENDS Integers, Sequences, FiniteSets, TLC

\* ------------------------------------------------------------ bounds ----
MaxLines == 5        \* lines of the script
MaxDur == 2          \* longest decoded audio, in ticks
MaxPixels == 5       \* largest source picture side
MaxTarget == 5       \* largest target height
MaxTextLen == 8      \* longest subtitle text, in characters
MaxFontsize == 26    \* largest initial font size besides the default
MaxTick == 3         \* largest sample time, in ticks

\* ------------------------------------------------- program constants ----
Pad == 5
Fps == 30
CharHeight == 400
SideMargin == 10
FrameWidth == 1920
FrameHeight == 1080
DefaultFontsize == 48
FontFloor == 20
ShrinkBy == 2
MaxSubtitleLines == 3
SubtitleMargin == 100
OutlineWidth == 2

Durations == 1..MaxDur
Languages == {"id", "en"}

HostVoice == "voice-host"
MayaVoice == "voice-maya"
NoVoice == "voice-none"

Min(a, b) == IF a <= b THEN a ELSE b
Max(a, b) == IF a >= b THEN a ELSE b

\* ------------------------------------------------------------ images ----
NoImage == [ok |-> FALSE, w |-> 0, h |-> 0]

\* The width computed with round() in place of int().
NewWidth_rounded(width, height, target_height) ==
    (2 * target_height * width + height) \div (2 * height)

\* aspect_ratio = width / height; new_width = int(target_height * aspect_ratio)
\* (for the sizes modelled the floating product truncates to the exact floor).
NewWidth(width, height, target_height) == (target_height * width) \div height

\* ImageProcessor.scale_image: None when the picture cannot be opened or
\* resize raises (it refuses a size with a side below 1), else the resized
\* picture.
scale_image(openable, width, height, target_height) ==
    IF ~openable
    THEN NoImage
    ELSE LET new_width == NewWidth(width, height, target_height)
         IN  IF new_width < 1 \/ target_height < 1
             THEN NoImage
             ELSE [ok |-> TRUE, w |-> new_width, h |-> target_height]

\* ---------------------------------------------------------- subtitle ----
Chars == {"a", " "}
Texts == UNION {[1..k -> Chars] : k \in 0..MaxTextLen}

\* text.split(): the maximal runs of non-blank characters, in order.
RECURSIVE SplitFrom(_, _, _)
SplitFrom(text, word, words) ==
    IF text = <<>>
    THEN IF word = <<>> THEN words ELSE Append(words, word)
    ELSE IF Head(text) = " "
         THEN SplitFrom(Tail(text), <<>>,
                        IF word = <<>> THEN words ELSE Append(words, word))
         ELSE SplitFrom(Tail(text), Append(word, Head(text)), words)

Split(text) == SplitFrom(text, <<>>, <<>>)

\* ' '.join(words)
RECURSIVE Join(_)
Join(words) ==
    IF words = <<>> THEN <<>>
    ELSE IF Len(words) = 1 THEN Head(words)
    ELSE Head(words) \o <<" ">> \o Join(Tail(words))

TrueType(size) == [kind |-> "truetype", size |-> size]
DefaultFont == [kind |-> "default", size |-> 10]

\* Font metrics: every glyph of a TrueType font of size s advances s/2
\* pixels and a line is s pixels high; the built-in font has fixed metrics.
Advance(font) == IF font.kind = "truetype" THEN font.size \div 2 ELSE 6
LineHeight(font) == IF font.kind = "truetype" THEN font.size ELSE 11

\* bbox[2] - bbox[0] of draw.textbbox((0, 0), line, font=font)
TextWidth(line, font) == Len(line) * Advance(font)

RECURSIVE WrapWords(_, _, _, _, _)
WrapWords(words, lines, current_line, font, max_width) ==
    IF words = <<>>
    THEN IF current_line # <<>> THEN Append(lines, Join(current_line)) ELSE lines
    ELSE LET word == Head(words)
             test_line == Join(Append(current_line, word))
         IN  IF TextWidth(test_line, font) <= max_width
             THEN WrapWords(Tail(words), lines, Append(current_line, word),
                            font, max_width)
             ELSE WrapWords(Tail(words), Append(lines, Join(current_line)),
                            <<word>>, font, max_width)

wrap_text(text, font, max_width) ==
    WrapWords(Split(text), <<>>, <<>>, font, max_width)

\* while current_fontsize > 20: font = truetype(current_fontsize);
\* wrapped_lines = wrap_text(...); if len(wrapped_lines) <= 3: break;
\* current_fontsize -= 2
RECURSIVE ShrinkLoop(_, _, _, _, _, _, _)
ShrinkLoop(text, max_width, current_fontsize, wrapped_lines, font, attempts, fontfile_ok) ==
    IF current_fontsize > FontFloor
    THEN IF ~fontfile_ok
         THEN [raised |-> TRUE, current_fontsize |-> current_fontsize,
               wrapped_lines |-> wrapped_lines, font |-> font,
               attempts |-> attempts]
         ELSE LET f == TrueType(current_fontsize)
                  wl == wrap_text(text, f, max_width)
              IN  IF Len(wl) <= MaxSubtitleLines
                  THEN [raised |-> FALSE, current_fontsize |-> current_fontsize,
                        wrapped_lines |-> wl, font |-> f,
                        attempts |-> attempts + 1]
                  ELSE ShrinkLoop(text, max_width, current_fontsize - ShrinkBy,
                                  wl, f, attempts + 1, fontfile_ok)
    ELSE [raised |-> FALSE, current_fontsize |-> current_fontsize,
          wrapped_lines |-> wrapped_lines, font |-> font, attempts |-> attempts]

RECURSIVE WidestLine(_, _)
WidestLine(lines, font) ==
    IF lines = <<>> THEN 0
    ELSE Max(TextWidth(Head(lines), font), WidestLine(Tail(lines), font))

\* SubtitleGenerator.create_subtitle_mask(w, h, text, fontsize): the mask it
\* returns (the block drawn, its font and position), or raised.
create_subtitle_mask(w, h, text, fontsize, fontfile_ok) ==
    LET font0 == IF fontfile_ok THEN TrueType(fontsize) ELSE DefaultFont
        loop == ShrinkLoop(text, w - SubtitleMargin, fontsize, <<>>, font0, 0,
                           fontfile_ok)
        text_width == WidestLine(loop.wrapped_lines, loop.font)
        text_height == Len(loop.wrapped_lines) * LineHeight(loop.font)
    IN  [raised |-> loop.raised,
         current_fontsize |-> loop.current_fontsize,
         wrapped_lines |-> loop.wrapped_lines,
         attempts |-> loop.attempts,
         font |-> loop.font,
         x |-> IF loop.raised THEN 0 ELSE (w - text_width) \div 2,
         y |-> IF loop.raised THEN 0 ELSE (h - text_height) \div 2,
         outline |-> OutlineWidth]

\* ------------------------------------------------------------ render ----
Background0 == [name |-> "background", pastes |-> <<>>]

\* Image.paste(sprite, (x, y), sprite) on img
Paste(img, sprite, x, y) ==
    [img EXCEPT !.pastes = Append(@, [sprite |-> sprite, x |-> x, y |-> y])]

\* int(5 * sin(t * 10)) at the ticks 0, 1, 2, ...
ShakeTable == <<0, 4, 4, 0, -3, -4, -1, 3, 4, 2>>
Shake(t) == ShakeTable[t + 1]

\* A compositor that skips an absent sprite.
RenderError_skips_absent(c1, c2, fontfile_ok) ==
    IF create_subtitle_mask(FrameWidth, FrameHeight, <<>>, DefaultFontsize,
                            fontfile_ok).raised
    THEN "font" ELSE "none"

\* What makes DialogClip.__call__ raise: self.char1.size or self.char2.size
\* of None, then create_subtitle_mask at the default font size.
RenderError(c1, c2, fontfile_ok) ==
    IF ~c1.ok \/ ~c2.ok THEN "sprite"
    ELSE IF create_subtitle_mask(FrameWidth, FrameHeight, <<>>,
                                 DefaultFontsize, fontfile_ok).raised
         THEN "font"
         ELSE "none"

Composite(bg, c1, c2, self, t) ==
    LET char1_x == SideMargin
        char2_x == FrameWidth - c2.w - SideMargin
        char_y == FrameHeight - CharHeight
        offset == Shake(t)
    IN  IF self.speaking_char = 1
        THEN Paste(Paste(bg, c1, char1_x + offset, char_y), c2, char2_x, char_y)
        ELSE Paste(Paste(bg, c1, char1_x, char_y), c2, char2_x + offset, char_y)

\* The compositor pasting onto the shared background itself.
DialogClip_call_inplace(bg, c1, c2, self, t, fontfile_ok) ==
    LET frame == Composite(bg, c1, c2, self, t)
    IN  [raised |-> RenderError(c1, c2, fontfile_ok),
         frame |-> [image |-> frame,
                    subtitle |-> create_subtitle_mask(FrameWidth, FrameHeight,
                                    self.text, DefaultFontsize, fontfile_ok)],
         background |-> frame, char1 |-> c1, char2 |-> c2, self |-> self]

\* DialogClip.__call__(t): the frame returned and the objects it leaves.
DialogClip_call(bg, c1, c2, self, t, fontfile_ok) ==
    LET frame == Composite(bg, c1, c2, self, t)   \* on self.background.copy()
    IN  [raised |-> RenderError(c1, c2, fontfile_ok),
         frame |-> [image |-> frame,
                    subtitle |-> create_subtitle_mask(FrameWidth, FrameHeight,
                                    self.text, DefaultFontsize, fontfile_ok)],
         background |-> bg, char1 |-> c1, char2 |-> c2, self |-> self]

DialogClip(text, speaking_char, duration) ==
    [text |-> text, speaking_char |-> speaking_char, duration |-> duration]

\* ------------------------------------------------------------- audio ----
Absent == [st |-> "absent", dur |-> 0]
Partial == [st |-> "partial", dur |-> 0]
Full(d) == [st |-> "full", dur |-> d]

TTSOutcomes == {"ok", "fail_early", "fail_late"}

\* What a backend call leaves behind: the files, whether an exception left
\* the call, and whether logging.error was called.
\* try: gTTS(text, lang).save(output_file) except Exception: logging.error
generate_gtts(fs, k, out, d) ==
    CASE out = "ok" ->
           [files |-> [fs EXCEPT ![k] = Full(d)], raised |-> FALSE, logged |-> FALSE]
      [] out = "fail_early" ->   \* gTTS(...) itself raises
           [files |-> fs, raised |-> FALSE, logged |-> TRUE]
      [] out = "fail_late" ->    \* save() raises once the file is open
           [files |-> [fs EXCEPT ![k] = Partial], raised |-> FALSE, logged |-> TRUE]

\* The same call with the exception leaving the function.
generate_playht_uncaught(fs, k, out, d) ==
    CASE out = "ok" ->
           [files |-> [fs EXCEPT ![k] = Full(d)], raised |-> FALSE, logged |-> FALSE]
      [] out = "fail_early" ->
           [files |-> fs, raised |-> TRUE, logged |-> FALSE]
      [] out = "fail_late" ->
           [files |-> [fs EXCEPT ![k] = Partial], raised |-> TRUE, logged |-> FALSE]

\* try: Client(...); TTSOptions(...); with open(output_file, "wb"): write
\* every chunk of client.tts(...); except Exception: logging.error
generate_playht(fs, k, out, d) ==
    CASE out = "ok" ->
           [files |-> [fs EXCEPT ![k] = Full(d)], raised |-> FALSE, logged |-> FALSE]
      [] out = "fail_early" ->   \* Client / TTSOptions / open raises
           [files |-> fs, raised |-> FALSE, logged |-> TRUE]
      [] out = "fail_late" ->    \* client.tts raises after open(..., "wb")
           [files |-> [fs EXCEPT ![k] = Partial], raised |-> FALSE, logged |-> TRUE]

\* ----------------------------------------------------- speaker slots ----
IsHost(k) == (k % 4) \in {0, 1}
CurrentCharacter(k) == IF IsHost(k) THEN "Host" ELSE "Maya"
VoiceUrl(name) == IF name = "Host" THEN HostVoice ELSE MayaVoice

\* Slots alternating line by line.
SpeakingChar_alternating(k) == IF (k % 2) = 0 THEN 1 ELSE 2

SpeakingChar(k) == IF (k % 4) \in {0, 1} THEN 1 ELSE 2

\* A clip as long as its audio, without the pad.
Clip_unpadded(k, d, speaking_char) ==
    [audio |-> [file |-> k, duration |-> d],
     duration |-> d,
     speaking_char |-> speaking_char]

\* video_clip.set_audio(audio_clip) of line k, audio_clip.duration = d
Clip(k, d, speaking_char) ==
    [audio |-> [file |-> k, duration |-> d],
     duration |-> d + Pad,
     speaking_char |-> speaking_char]

\* ------------------------------------------------------- concatenate ----
RECURSIVE Starts(_, _)
Starts(cs, t) ==
    IF cs = <<>> THEN <<>>
    ELSE <<t>> \o Starts(Tail(cs), t + Head(cs).duration)

RECURSIVE End(_, _)
End(cs, t) == IF cs = <<>> THEN t ELSE End(Tail(cs), t + Head(cs).duration)

NoTimeline == [built |-> FALSE, starts |-> <<>>, audio_starts |-> <<>>,
               duration |-> 0]

\* concatenate_videoclips(clips): each clip, with its audio, placed at the
\* end of the one before.
concatenate_videoclips(cs) ==
    [built |-> TRUE, starts |-> Starts(cs, 0), audio_starts |-> Starts(cs, 0),
     duration |-> End(cs, 0)]

\* ------------------------------------------------------------- state ----
VARIABLES
    \* create_conversation_video_oop
    pc,          \* position in the function
    err,         \* what raised the unhandled error that ended the run
    n,           \* len(texts)
    nlang,       \* len(languages)
    font_ok,     \* the TrueType font file can be loaded
    host_img,    \* host.scaled_image
    maya_img,    \* maya.scaled_image
    files,       \* the audio files dialog_0.mp3 .. dialog_(n-1).mp3
    i,           \* index of the running loop
    spoke,       \* names printed by the synthesis loop, one per line
    last_tts,    \* the most recent TTS call and what it did
    errors,      \* number of logging.error calls made by the TTS backends
    clips,       \* the list clips
    frames,      \* number of frames DialogClip.__call__ has returned
    timeline,    \* final_video
    encode,      \* result of write_videofile
    output,      \* the output video file
    \* ImageProcessor.scale_image on its own
    sc_in,       \* the picture and the target height
    sc_out,      \* what the call returned
    \* SubtitleGenerator.create_subtitle_mask on its own
    sub_in,      \* w, h, text, fontsize and the font file's state
    sub_out,     \* what the call returned
    \* DialogClip.__call__ on its own
    background,  \* the shared background image
    char1,       \* host.scaled_image, shared by the clips
    char2,       \* maya.scaled_image, shared by the clips
    dialogs,     \* the DialogClip objects
    last_frame,  \* the latest call: clip, sample time, frame returned
    first_frame  \* per clip and sample time, the frame of the first call

pvars == <<pc, err, n, nlang, font_ok, host_img, maya_img, files, i, spoke,
           last_tts, errors, clips, frames, timeline, encode, output>>
scvars == <<sc_in, sc_out>>
subvars == <<sub_in, sub_out>>
rvars == <<background, char1, char2, dialogs, last_frame, first_frame>>

vars == <<pvars, scvars, subvars, rvars>>

\* -------------------------------------------------------------- Init ----
NoCall == [line |-> -1, backend |-> "none", voice |-> NoVoice,
           before |-> "absent", outcome |-> "none"]

NoScaleIn == [called |-> FALSE, openable |-> FALSE, width |-> 1, height |-> 1,
              target_height |-> 1]

NoSubIn == [called |-> FALSE, w |-> 0, h |-> 0, text |-> <<>>, fontsize |-> 0,
            fontfile_ok |-> FALSE]

NoSubOut == create_subtitle_mask(0, 0, <<>>, 0, FALSE)

NoFrame == [clip |-> 0, t |-> 0, frame |-> <<>>, again |-> FALSE]

PipelineIdle ==
    /\ pc = "idle"
    /\ err = "none"
    /\ n = 0
    /\ nlang = 0
    /\ font_ok = TRUE
    /\ host_img = NoImage
    /\ maya_img = NoImage
    /\ files = [k \in 0..(-1) |-> Absent]
    /\ i = 0
    /\ spoke = <<>>
    /\ last_tts = NoCall
    /\ errors = 0
    /\ clips = <<>>
    /\ frames = 0
    /\ timeline = NoTimeline
    /\ encode = "none"
    /\ output = "none"

ScaleIdle ==
    /\ sc_in = NoScaleIn
    /\ sc_out = NoImage

SubtitleIdle ==
    /\ sub_in = NoSubIn
    /\ sub_out = NoSubOut

RenderIdle ==
    /\ background = Background0
    /\ char1 = NoImage
    /\ char2 = NoImage
    /\ dialogs = <<>>
    /\ last_frame = NoFrame
    /\ first_frame = <<>>

\* The script's lines, no audio file on disk yet.
Init ==
    /\ pc = "scale_host"
    /\ err = "none"
    /\ n \in 0..MaxLines
    /\ nlang \in 0..MaxLines
    /\ font_ok \in BOOLEAN
    /\ host_img = NoImage
    /\ maya_img = NoImage
    /\ files = [k \in 0..(n - 1) |-> Absent]
    /\ i = 0
    /\ spoke = <<>>
    /\ last_tts = NoCall
    /\ errors = 0
    /\ clips = <<>>
    /\ frames = 0
    /\ timeline = NoTimeline
    /\ encode = "none"
    /\ output = "none"
    /\ ScaleIdle
    /\ SubtitleIdle
    /\ RenderIdle

\* ----------------------------------------------------------- actions ----
\* The two character pictures on disk, when readable.
HostPicture == [width |-> 2, height |-> 4]
MayaPicture == [width |-> 3, height |-> 4]

\* host.scale_image()
ScaleHost ==
    /\ pc = "scale_host"
    /\ \E openable \in BOOLEAN :
         host_img' = scale_image(openable, HostPicture.width,
                                 HostPicture.height, CharHeight)
    /\ pc' = "scale_maya"
    /\ UNCHANGED <<err, n, nlang, font_ok, maya_img, files, i, spoke, last_tts,
                   errors, clips, frames, timeline, encode, output>>
    /\ UNCHANGED <<scvars, subvars, rvars>>

\* maya.scale_image()
ScaleMaya ==
    /\ pc = "scale_maya"
    /\ \E openable \in BOOLEAN :
         maya_img' = scale_image(openable, MayaPicture.width,
                                 MayaPicture.height, CharHeight)
    /\ pc' = "synth"
    /\ i' = 0
    /\ UNCHANGED <<err, n, nlang, font_ok, host_img, files, spoke, last_tts,
                   errors, clips, frames, timeline, encode, output>>
    /\ UNCHANGED <<scvars, subvars, rvars>>

\* One pass of the loop over zip(texts, audio_files, languages).
SynthLine ==
    /\ pc = "synth"
    /\ i < Min(n, nlang)
    /\ \E lang \in Languages, out \in TTSOutcomes, d \in Durations :
         LET current_character == CurrentCharacter(i)
             r == IF lang = "id"
                  THEN generate_gtts(files, i, out, d)
                  ELSE generate_playht(files, i, out, d)
         IN  /\ files' = r.files
             /\ last_tts' = [line |-> i,
                             backend |-> IF lang = "id" THEN "gtts" ELSE "playht",
                             voice |-> IF lang = "id" THEN NoVoice
                                       ELSE VoiceUrl(current_character),
                             before |-> files[i].st,
                             outcome |-> out]
             /\ errors' = IF r.logged THEN errors + 1 ELSE errors
             /\ IF r.raised
                THEN /\ pc' = "error"
                     /\ err' = "tts"
                     /\ UNCHANGED <<i, spoke>>
                ELSE /\ spoke' = Append(spoke, current_character)
                     /\ i' = i + 1
                     /\ UNCHANGED <<pc, err>>
    /\ UNCHANGED <<n, nlang, font_ok, host_img, maya_img, clips,
                   frames, timeline, encode, output>>
    /\ UNCHANGED <<scvars, subvars, rvars>>

\* The zip is exhausted: clips = [] and the second loop starts.
SynthDone ==
    /\ pc = "synth"
    /\ i = Min(n, nlang)
    /\ pc' = "build"
    /\ i' = 0
    /\ UNCHANGED <<err, n, nlang, font_ok, host_img, maya_img, files, spoke,
                   last_tts, errors, clips, frames, timeline, encode, output>>
    /\ UNCHANGED <<scvars, subvars, rvars>>

\* One pass of the loop over zip(texts, audio_files).
BuildClip ==
    /\ pc = "build"
    /\ i < n
    /\ \/ \* AudioFileClip(audio_file) raises
          /\ files[i].st \in {"absent", "partial"}
          /\ pc' = "error"
          /\ err' = "audio"
          /\ UNCHANGED <<i, clips, frames>>
       \/ \E d \in Durations :
            /\ \/ files[i].st = "full" /\ d = files[i].dur
               \/ files[i].st = "partial"
            /\ LET r == RenderError(host_img, maya_img, font_ok)
               IN  IF r # "none"
                   THEN \* VideoClip(dialog, ...) samples dialog(0), which raises
                        /\ pc' = "error"
                        /\ err' = r
                        /\ UNCHANGED <<i, clips, frames>>
                   ELSE /\ clips' = Append(clips, Clip(i, d, SpeakingChar(i)))
                        /\ frames' = frames + 1
                        /\ i' = i + 1
                        /\ UNCHANGED <<pc, err>>
    /\ UNCHANGED <<n, nlang, font_ok, host_img, maya_img, files, spoke,
                   last_tts, errors, timeline, encode, output>>
    /\ UNCHANGED <<scvars, subvars, rvars>>

\* final_video = concatenate_videoclips(clips)
Concatenate ==
    /\ pc = "build"
    /\ i = n
    /\ IF clips = <<>>
       THEN /\ pc' = "error"
            /\ err' = "concat"
            /\ UNCHANGED timeline
       ELSE /\ timeline' = concatenate_videoclips(clips)
            /\ pc' = "encode"
            /\ UNCHANGED err
    /\ UNCHANGED <<n, nlang, font_ok, host_img, maya_img, files, i, spoke,
                   last_tts, errors, clips, frames, encode, output>>
    /\ UNCHANGED <<scvars, subvars, rvars>>

\* final_video.write_videofile(output_path, fps=30, ...): Fps frames per
\* time unit of ten ticks.
WriteVideofile ==
    /\ pc = "encode"
    /\ \/ /\ encode' = "ok"
          /\ output' = "written"
          /\ frames' = frames + (timeline.duration * Fps) \div 10
          /\ pc' = "cleanup"
          /\ UNCHANGED err
       \/ /\ encode' = "failed"
          /\ output' \in {"none", "partial"}
          /\ pc' = "error"
          /\ err' = "encode"
          /\ UNCHANGED frames
    /\ UNCHANGED <<n, nlang, font_ok, host_img, maya_img, files, i, spoke,
                   last_tts, errors, clips, timeline>>
    /\ UNCHANGED <<scvars, subvars, rvars>>

\* for audio_file in audio_files: if os.path.exists(audio_file): os.remove
Cleanup ==
    /\ pc = "cleanup"
    /\ files' = [k \in DOMAIN files |-> Absent]
    /\ pc' = "done"
    /\ UNCHANGED <<err, n, nlang, font_ok, host_img, maya_img, i, spoke,
                   last_tts, errors, clips, frames, timeline, encode, output>>
    /\ UNCHANGED <<scvars, subvars, rvars>>

Next ==
    \/ ScaleHost
    \/ ScaleMaya
    \/ SynthLine
    \/ SynthDone
    \/ BuildClip
    \/ Concatenate
    \/ WriteVideofile
    \/ Cleanup

Spec == Init /\ [][Next]_vars

\* ---------------------------------------------- scale_image on its own ----
ScaleInit ==
    /\ sc_in \in [called : {FALSE}, openable : BOOLEAN, width : 1..MaxPixels,
                  height : 1..MaxPixels, target_height : 1..MaxTarget]
    /\ sc_out = NoImage
    /\ PipelineIdle
    /\ SubtitleIdle
    /\ RenderIdle

ScaleCall ==
    /\ ~sc_in.called
    /\ sc_in' = [sc_in EXCEPT !.called = TRUE]
    /\ sc_out' = scale_image(sc_in.openable, sc_in.width, sc_in.height,
                             sc_in.target_height)
    /\ UNCHANGED <<pvars, subvars, rvars>>

ScaleNext == ScaleCall

ScaleSpec == ScaleInit /\ [][ScaleNext]_vars

\* ------------------------------------- create_subtitle_mask on its own ----
FrameWidths == {SubtitleMargin + 10, SubtitleMargin + 30}
Fontsizes == ((FontFloor - 1)..MaxFontsize) \cup {DefaultFontsize}

SubtitleInit ==
    /\ sub_in \in [called : {FALSE}, w : FrameWidths, h : {FrameHeight},
                   text : Texts, fontsize : Fontsizes, fontfile_ok : BOOLEAN]
    /\ sub_out = NoSubOut
    /\ PipelineIdle
    /\ ScaleIdle
    /\ RenderIdle

SubtitleCall ==
    /\ ~sub_in.called
    /\ sub_in' = [sub_in EXCEPT !.called = TRUE]
    /\ sub_out' = create_subtitle_mask(sub_in.w, sub_in.h, sub_in.text,
                                       sub_in.fontsize, sub_in.fontfile_ok)
    /\ UNCHANGED <<pvars, scvars, rvars>>

SubtitleNext == SubtitleCall

SubtitleSpec == SubtitleInit /\ [][SubtitleNext]_vars

\* ------------------------------------------ DialogClip.__call__ on its own ----
Char1_0 == scale_image(TRUE, HostPicture.width, HostPicture.height, CharHeight)
Char2_0 == scale_image(TRUE, MayaPicture.width, MayaPicture.height, CharHeight)

\* Two clips of one video: line 0 (slot 1) and line 2 (slot 2).
Dialogs0 ==
    <<DialogClip(<<"a", "a", " ", "a">>, SpeakingChar(0), 1 + Pad),
      DialogClip(<<"a", " ", "a", "a", "a">>, SpeakingChar(2), 2 + Pad)>>

SampleTimes == 0..MaxTick

RenderInit ==
    /\ background = Background0
    /\ char1 = Char1_0
    /\ char2 = Char2_0
    /\ dialogs = Dialogs0
    /\ last_frame = NoFrame
    /\ first_frame = [c \in 1..Len(Dialogs0) |-> [t \in SampleTimes |-> <<>>]]
    /\ PipelineIdle
    /\ ScaleIdle
    /\ SubtitleIdle

\* The encoder samples clip c at time t.
Render ==
    \E c \in 1..Len(dialogs), t \in SampleTimes :
        LET r == DialogClip_call(background, char1, char2, dialogs[c], t, font_ok)
        IN  /\ r.raised = "none"
            /\ background' = r.background
            /\ char1' = r.char1
            /\ char2' = r.char2
            /\ dialogs' = [dialogs EXCEPT ![c] = r.self]
            /\ last_frame' = [clip |-> c, t |-> t, frame |-> <<r.frame>>,
                              again |-> first_frame[c][t] # <<>>]
            /\ first_frame' = IF first_frame[c][t] # <<>> THEN first_frame
                              ELSE [first_frame EXCEPT ![c][t] = <<r.frame>>]
            /\ UNCHANGED <<pvars, scvars, subvars>>

RenderNext == Render

RenderSpec == RenderInit /\ [][RenderNext]_vars

\* ------------------------------------------------- pipeline properties ----
Scaled == pc \notin {"idle", "scale_host", "scale_maya"}

RECURSIVE SumPadded(_)
SumPadded(k) == IF k = 0 THEN 0
                ELSE SumPadded(k - 1) + clips[k].audio.duration + Pad

\* C1: one clip per line in script order; clip i lasts d_i + 0.5 and carries
\* audio track i; in the concatenated timeline clip i and its audio start at
\* the sum over j < i of (d_j + 0.5), consecutive clips abut, and the total
\* duration is the sum over all i of (d_i + 0.5).
C1_Timeline ==
    /\ \A k \in 1..Len(clips) :
         /\ clips[k].audio.file = k - 1
         /\ clips[k].duration = clips[k].audio.duration + Pad
         /\ (pc # "done" /\ files[k - 1].st = "full")
               => clips[k].audio.duration = files[k - 1].dur
    /\ timeline.built =>
         /\ Len(clips) = n
         /\ Len(timeline.starts) = n
         /\ Len(timeline.audio_starts) = n
         /\ \A k \in 1..n :
              /\ timeline.starts[k] = SumPadded(k - 1)
              /\ timeline.audio_starts[k] = SumPadded(k - 1)
              /\ k < n => timeline.starts[k + 1]
                             = timeline.starts[k] + clips[k].duration
         /\ timeline.duration = SumPadded(n)

C1_Witness ==
    /\ timeline.built
    /\ n >= 4
    /\ clips[1].audio.duration # clips[2].audio.duration

SlotPattern == <<1, 1, 2, 2>>
SlotOf(k) == SlotPattern[(k % 4) + 1]
NameOfSlot(slot) == IF slot = 1 THEN "Host" ELSE "Maya"

\* C2: the speaking slot of clip i is A (1, Host) for i mod 4 in {0,1} and
\* B (2, Maya) for i mod 4 in {2,3}; the character selected in the synthesis
\* loop for line i (and its voice, when Play.ht is used) is the character of
\* that slot.
C2_Slots ==
    /\ \A k \in 1..Len(clips) : clips[k].speaking_char = SlotOf(k - 1)
    /\ \A k \in 1..Len(spoke) : spoke[k] = NameOfSlot(SlotOf(k - 1))
    /\ \A k \in 1..Min(Len(clips), Len(spoke)) :
         spoke[k] = NameOfSlot(clips[k].speaking_char)
    /\ last_tts.backend = "playht" =>
         last_tts.voice = (IF SlotOf(last_tts.line) = 1 THEN HostVoice
                           ELSE MayaVoice)

C2_Witness ==
    /\ Len(clips) >= 5
    /\ Len(spoke) >= 5
    /\ last_tts.backend = "playht"

SpritesAndFontFine == host_img.ok /\ maya_img.ok /\ font_ok

\* C4 (as stated): a failure of a TTS call or of the final encode never ends
\* the run in an unhandled error.
C4_RunContinues ==
    (Scaled /\ SpritesAndFontFine /\ nlang >= n
        /\ (errors > 0 \/ encode = "failed"))
      => pc # "error"

\* C4 (amended): a TTS failure is caught and logged inside the backend and
\* the synthesis loop goes on to every remaining line; a line whose audio
\* is missing or undecodable then ends the run in the clip-building loop,
\* and a failed encode ends it too, both before the cleanup step; cleanup is
\* reached only when every line has a clip and the encode succeeded.
C4_CaughtThenAborts ==
    /\ err # "tts"
    /\ pc = "synth" => (Len(spoke) = i /\ err = "none")
    /\ (Scaled /\ pc # "synth") => Len(spoke) = Min(n, nlang)
    /\ last_tts.outcome \in {"fail_early", "fail_late"} => errors >= 1
    /\ err = "audio" =>
         /\ pc = "error"
         /\ Len(clips) < n
         /\ files[Len(clips)].st \in {"absent", "partial"}
         /\ ~timeline.built
         /\ output = "none"
    /\ encode = "failed" => (pc = "error" /\ err = "encode")
    /\ pc \in {"cleanup", "done"} =>
         (encode = "ok" /\ Len(clips) = n /\ output = "written")

C4_Witness ==
    /\ pc = "error"
    /\ err = "audio"
    /\ errors >= 1
    /\ n >= 2
    /\ Len(spoke) = n
    /\ last_tts.outcome = "fail_late"

\* C5: after a TTS call that failed, at whatever point, the failure is
\* logged and no file exists at the line's output path if none existed
\* before the call.  Checked on the Play.ht calls, whose file handling is
\* in generate_playht itself.
C5_NoFileAfterFailure ==
    (pc = "synth" /\ last_tts.outcome \in {"fail_early", "fail_late"}
        /\ last_tts.backend = "playht" /\ last_tts.before = "absent")
      => files[last_tts.line].st = "absent"

\* C7: with an absent sprite no frame is ever returned, no clip is built,
\* nothing is concatenated or encoded and no output file appears: the run
\* can only end in an error.
C7_AbsentSpriteStops ==
    (Scaled /\ (~host_img.ok \/ ~maya_img.ok)) =>
        /\ frames = 0
        /\ clips = <<>>
        /\ ~timeline.built
        /\ encode = "none"
        /\ output = "none"
        /\ pc \in {"synth", "build", "error"}
        /\ pc = "error" => err \in {"audio", "sprite", "concat"}

C7_Witness ==
    /\ pc = "error"
    /\ err = "sprite"
    /\ ~maya_img.ok
    /\ host_img.ok
    /\ files[0].st = "full"

\* ---------------------------------------------- scale_image properties ----
RoundHalfUp(a, b) == (2 * a + b) \div (2 * b)
RoundHalfEven(a, b) ==
    LET q == a \div b
        r == a - q * b
    IN  IF 2 * r < b THEN q
        ELSE IF 2 * r > b THEN q + 1
        ELSE IF q % 2 = 0 THEN q ELSE q + 1

\* C9 (as stated): the result is an image of height T and width
\* round(T * w / h), whichever way round() breaks a tie.  Checked where
\* T * w / h is at least 1, so that no violation is owed to an empty size.
C9_RoundedWidth ==
    (sc_in.called /\ sc_in.openable
        /\ sc_in.target_height * sc_in.width >= sc_in.height) =>
        /\ sc_out.ok
        /\ sc_out.h = sc_in.target_height
        /\ \/ sc_out.w = RoundHalfUp(sc_in.target_height * sc_in.width,
                                     sc_in.height)
           \/ sc_out.w = RoundHalfEven(sc_in.target_height * sc_in.width,
                                       sc_in.height)

\* C9 (amended): when scale_image returns an image its height is exactly T
\* and its width is T * w / h truncated, never rounded up:
\* 1 <= width <= T * w / h <= width + 1; it returns no image when the picture
\* cannot be read.
C9_TruncatedWidth ==
    sc_in.called =>
        /\ ~sc_in.openable => ~sc_out.ok
        /\ sc_out.ok =>
             /\ sc_out.h = sc_in.target_height
             /\ sc_out.w >= 1
             /\ sc_out.w * sc_in.height <= sc_in.target_height * sc_in.width
             /\ sc_in.target_height * sc_in.width
                    <= (sc_out.w + 1) * sc_in.height

C9_Witness ==
    /\ sc_in.called
    /\ sc_out.ok
    /\ sc_out.w >= 2
    /\ sc_out.w < RoundHalfEven(sc_in.target_height * sc_in.width, sc_in.height)

\* ------------------------------------- create_subtitle_mask properties ----
WordsFit(text, font, max_width) ==
    \A k \in 1..Len(Split(text)) : TextWidth(Split(text)[k], font) <= max_width

\* C3: for an initial font size >= 20 the shrink loop makes at most
\* (initial - 20) / 2 + 1 wrap attempts and ends with at most 3 lines or
\* with the font size equal to 20.  Checked with the font present and on
\* texts whose words each fit a line, so that no violation is owed to the
\* font fallback or to the wrap of an overlong word.
C3_ShrinkLoop ==
    (sub_in.called /\ sub_in.fontfile_ok /\ sub_in.fontsize >= FontFloor
        /\ WordsFit(sub_in.text, TrueType(sub_in.fontsize),
                    sub_in.w - SubtitleMargin)) =>
        /\ ~sub_out.raised
        /\ sub_out.attempts <= (sub_in.fontsize - FontFloor) \div ShrinkBy + 1
        /\ \/ Len(sub_out.wrapped_lines) <= MaxSubtitleLines
           \/ sub_out.current_fontsize = FontFloor

\* C6: with the TrueType font missing the call does not raise and returns a
\* mask laid out with the built-in font, at every initial font size.
C6_FontFallback ==
    (sub_in.called /\ ~sub_in.fontfile_ok) =>
        /\ ~sub_out.raised
        /\ sub_out.font = DefaultFont

\* C10: a text of one word wraps to exactly that one line whatever its
\* width, and no wrap contains an empty line.
C10_SingleWord ==
    (sub_in.called /\ ~sub_out.raised /\ sub_out.attempts >= 1) =>
        /\ Len(Split(sub_in.text)) = 1
             => sub_out.wrapped_lines = <<Split(sub_in.text)[1]>>
        /\ \A k \in 1..Len(sub_out.wrapped_lines) :
             sub_out.wrapped_lines[k] # <<>>

\* ------------------------------------------ DialogClip.__call__ properties ----
\* C8: whatever the order of the sample times, a render call leaves the
\* shared background, both sprites and the clips' fields as they were, and
\* a call repeated on a clip at a sample time returns the frame of the first.
C8_PureRender ==
    (dialogs # <<>>) =>
        /\ background = Background0
        /\ char1 = Char1_0
        /\ char2 = Char2_0
        /\ dialogs = Dialogs0
        /\ last_frame.clip # 0 =>
             first_frame[last_frame.clip][last_frame.t] = last_frame.frame

C8_Witness ==
    /\ last_frame.clip = 2
    /\ last_frame.t = 1
    /\ last_frame.again
    /\ first_frame[2][MaxTick] # <<>>
    /\ first_frame[1][0] # <<>>
=============================================================================
